---- MODULE Spec2Model ----
(***************************************************************************)
(* The offline-first local cache and synchronization reconciler of         *)
(* agentic_notes: the IndexedDB mirror (object stores 'notes', 'pending',  *)
(* 'meta') of src/src/main.tsx lines 30-345 (the revision of the offline   *)
(* module that has getLastFullSync / removePendingForNote, which the note  *)
(* list controller calls) and its call sites in src/src/pages/Index.tsx    *)
(* and src/src/components/NoteDialog.tsx.                                  *)
(***************************************************************************)
EXTENDS Integers, Sequences, FiniteSets, TLC

(***************************************************************************)
(* Bounds of the model.                                                    *)
(***************************************************************************)
MaxNotes == 2
MaxListNotes == 3
MaxTime == 2
MaxLen == 2
MaxTicks == 2
MaxEvents == 1
MaxOps == 2

Owners == {"u1", "u2"}
Me == "u1"
NoNote == [id |-> 0]

(***************************************************************************)
(* Strings are sequences of one-character strings, so that trim() and the  *)
(* markup-stripping replace() are computed and not assumed.                *)
(***************************************************************************)
Chars == {" ", "x", "<", ">"}

RECURSIVE StrOfLen(_)
StrOfLen(n) ==
    IF n = 0 THEN {<<>>}
    ELSE {Append(s, c) : s \in StrOfLen(n - 1), c \in Chars}

StrUpTo(n) == UNION {StrOfLen(k) : k \in 0..n}

RECURSIVE TrimStart(_)
TrimStart(s) ==
    IF s # <<>> /\ Head(s) = " " THEN TrimStart(Tail(s)) ELSE s

RECURSIVE TrimEnd(_)
TrimEnd(s) ==
    IF s # <<>> /\ s[Len(s)] = " " THEN TrimEnd(SubSeq(s, 1, Len(s) - 1)) ELSE s

\* String.prototype.trim()
Trim(s) == TrimEnd(TrimStart(s))

\* index of the first ">" at or after position i, 0 when there is none
RECURSIVE FirstClose(_, _)
FirstClose(s, i) ==
    IF i > Len(s) THEN 0
    ELSE IF s[i] = ">" THEN i
    ELSE FirstClose(s, i + 1)

\* s.replace(/<[^>]*>/g, ' '): every "<" that has a ">" after it is replaced,
\* together with everything up to the first such ">", by one space
RECURSIVE StripTagsFrom(_, _)
StripTagsFrom(s, i) ==
    IF i > Len(s) THEN <<>>
    ELSE IF s[i] = "<" /\ FirstClose(s, i + 1) # 0
         THEN <<" ">> \o StripTagsFrom(s, FirstClose(s, i + 1) + 1)
         ELSE <<s[i]>> \o StripTagsFrom(s, i + 1)

StripTags(s) == StripTagsFrom(s, 1)

(***************************************************************************)
(* State.                                                                  *)
(***************************************************************************)
VARIABLES
    notes,          \* object store 'notes' (keyPath 'id'): id -> note or NoNote
    pending,        \* object store 'pending' (autoIncrement key): ops in key order
    nextKey,        \* the key generator of 'pending'
    dirty,          \* meta 'dirty' (0 / 1)
    lastFetchedAt,  \* meta 'lastFetchedAt:<user>', 0 when unset
    lastFullSync,   \* meta 'lastFullSync:<user>', 0 when unset
    remote,         \* the Supabase table 'notes': id -> note or NoNote
    online,         \* navigator.onLine
    now,            \* Date.now()
    ticks,          \* how often the clock has advanced
    events,         \* realtime postgres_changes events not yet delivered
    task,           \* the asynchronous flows in progress and their locals
    aux             \* input and result of the operation under check

vars == <<notes, pending, nextKey, dirty, lastFetchedAt, lastFullSync,
          remote, online, now, ticks, events, task, aux>>

NoteIds == 1..MaxNotes
ListIds == 1..MaxListNotes

EmptyStore(ids) == [i \in ids |-> NoNote]

\* const isPinned = (tags || []).includes('pinned')
IsPinned(n) == "pinned" \in n.tags

\* new Date(updated_at || 0).getTime(); a timestamp is kept as its epoch
\* milliseconds and 0 stands for a missing one
GetTime(n) == n.updated_at

(***************************************************************************)
(* LocalStore: the object store 'notes'.                                   *)
(***************************************************************************)
\* db.put('notes', note)
putLocalNote(store, note) == [store EXCEPT ![note.id] = note]

\* db.delete('notes', id)
deleteLocalNote(store, id) == [store EXCEPT ![id] = NoNote]

\* idx.getAll(IDBKeyRange.only(user_id)): the notes of the owner in primary
\* key order
RECURSIVE IndexGetAll(_, _, _)
IndexGetAll(store, user_id, i) ==
    IF i \notin DOMAIN store THEN <<>>
    ELSE IF store[i] # NoNote /\ store[i].user_id = user_id
         THEN <<store[i]>> \o IndexGetAll(store, user_id, i + 1)
         ELSE IndexGetAll(store, user_id, i + 1)

\* n.title?.trim() || (n.content || '').replace(/<[^>]*>/g, ' ').trim()
HasText(n) == Trim(n.title) # <<>> \/ Trim(StripTags(n.content)) # <<>>

\* all.filter(n => n && (...))
RECURSIVE FilterHasText(_)
FilterHasText(s) ==
    IF s = <<>> THEN <<>>
    ELSE IF HasText(Head(s)) THEN <<Head(s)>> \o FilterHasText(Tail(s))
    ELSE FilterHasText(Tail(s))

\* a comparator by updated_at alone
CompareNotesDropPin(a, b) == GetTime(b) - GetTime(a)

\* the comparator of the sort: negative when a goes before b

CompareNotes(a, b) ==
    LET ap == IF IsPinned(a) THEN 1 ELSE 0
        bp == IF IsPinned(b) THEN 1 ELSE 0
    IN  IF ap # bp THEN bp - ap ELSE GetTime(b) - GetTime(a)

\* Array.prototype.sort is stable: x goes after every element it does not
\* strictly precede
RECURSIVE InsertNote(_, _)
InsertNote(sorted, x) ==
    IF sorted = <<>> THEN <<x>>
    ELSE IF CompareNotes(x, Head(sorted)) < 0 THEN <<x>> \o sorted
    ELSE <<Head(sorted)>> \o InsertNote(Tail(sorted), x)

RECURSIVE SortNotes(_)
SortNotes(s) ==
    IF s = <<>> THEN <<>>
    ELSE InsertNote(SortNotes(SubSeq(s, 1, Len(s) - 1)), s[Len(s)])

\* the sorted list without the filter
getLocalNotesNoFilter(store, user_id) == SortNotes(IndexGetAll(store, user_id, 1))

\* getLocalNotes(user_id)
getLocalNotes(store, user_id) ==
    SortNotes(FilterHasText(IndexGetAll(store, user_id, 1)))

(***************************************************************************)
(* LocalStore: the object store 'pending' and the meta keys.               *)
(***************************************************************************)
UpsertOp(key, note, ts) ==
    [key |-> key, kind |-> "upsert", noteId |-> note.id,
     user_id |-> note.user_id, note |-> note, ts |-> ts]

DeleteOp(key, id, user_id, ts) ==
    [key |-> key, kind |-> "delete", noteId |-> id,
     user_id |-> user_id, note |-> NoNote, ts |-> ts]

\* db.add('pending', op) of queueUpsert
queueUpsert(pend, key, note, ts) == Append(pend, UpsertOp(key, note, ts))

\* db.add('pending', op) of queueDelete
queueDelete(pend, key, id, user_id, ts) ==
    Append(pend, DeleteOp(key, id, user_id, ts))

RECURSIVE SelectOps(_, _)
SelectOps(pend, keep) ==
    IF pend = <<>> THEN <<>>
    ELSE IF Head(pend).key \in keep THEN <<Head(pend)>> \o SelectOps(Tail(pend), keep)
    ELSE SelectOps(Tail(pend), keep)

OpKeys(pend) == {pend[i].key : i \in DOMAIN pend}

\* a delete of every entry that references the note of the entry of that key
removeOpsOfNote(pend, key) ==
    SelectOps(pend, {pend[i].key : i \in {j \in DOMAIN pend :
        \A k \in DOMAIN pend : pend[k].key = key => pend[j].noteId # pend[k].noteId}})

\* tx.store.delete(key)
removeOp(pend, key) == SelectOps(pend, OpKeys(pend) \ {key})

\* the ops of one owner, in key order
OpsOf(pend, user_id) ==
    SelectOps(pend, {pend[i].key : i \in {j \in DOMAIN pend : pend[j].user_id = user_id}})

getPendingCount(pend, user_id) == Len(OpsOf(pend, user_id))

getPendingDeletes(pend, user_id) ==
    {pend[i].noteId : i \in {j \in DOMAIN pend :
        pend[j].kind = "delete" /\ pend[j].user_id = user_id}}

PendingUpserts(pend, user_id) ==
    {pend[i].noteId : i \in {j \in DOMAIN pend :
        pend[j].kind = "upsert" /\ pend[j].user_id = user_id}}

\* removePendingForNote(noteId, user_id)
removePendingForNote(pend, id, user_id) ==
    SelectOps(pend, {pend[i].key : i \in {j \in DOMAIN pend :
        ~(pend[j].noteId = id /\ pend[j].user_id = user_id)}})

\* a clear of the whole queue, whoever owns the ops
clearPendingOfAll(pend, user_id) == <<>>

\* the 'pending' part of clearAllLocal(user_id)
clearPending(pend, user_id) ==
    SelectOps(pend, {pend[i].key : i \in {j \in DOMAIN pend : pend[j].user_id # user_id}})

\* the 'notes' part of clearAllLocal(user_id)
clearNotes(store, user_id) ==
    [i \in DOMAIN store |->
        IF store[i] # NoNote /\ store[i].user_id = user_id THEN NoNote ELSE store[i]]

\* paired.sort((a, b) => (a.op.ts || 0) - (b.op.ts || 0)), a stable sort
RECURSIVE InsertOp(_, _)
InsertOp(sorted, x) ==
    IF sorted = <<>> THEN <<x>>
    ELSE IF x.ts - Head(sorted).ts < 0 THEN <<x>> \o sorted
    ELSE <<Head(sorted)>> \o InsertOp(Tail(sorted), x)

RECURSIVE SortOps(_)
SortOps(s) ==
    IF s = <<>> THEN <<>>
    ELSE InsertOp(SortOps(SubSeq(s, 1, Len(s) - 1)), s[Len(s)])

(***************************************************************************)
(* Remote: the Supabase table.                                             *)
(***************************************************************************)
\* select("*").eq("user_id", userId)
RemoteRows(rem, user_id) ==
    {rem[i] : i \in {j \in DOMAIN rem : rem[j] # NoNote /\ rem[j].user_id = user_id}}

\* ... .gt("updated_at", iso)
RemoteRowsSince(rem, user_id, since) ==
    {r \in RemoteRows(rem, user_id) : r.updated_at > since}

StoredIds(store, user_id) ==
    {i \in DOMAIN store : store[i] # NoNote /\ store[i].user_id = user_id}

(***************************************************************************)
(* Merge.                                                                  *)
(***************************************************************************)
\* a write that makes the store hold the given rows and nothing else
putManyReplacingStore(store, rows) ==
    [i \in DOMAIN store |->
        IF \E r \in rows : r.id = i THEN CHOOSE r \in rows : r.id = i ELSE NoNote]

\* for (const n of notes) await tx.store.put(n)
putManyLocalNotes(store, rows) ==
    [i \in DOMAIN store |->
        IF \E r \in rows : r.id = i THEN CHOOSE r \in rows : r.id = i ELSE store[i]]

\* the cleanup loop stopping after its first delete
mergeRemoteIntoLocalOneDelete(store, rows) ==
    IF rows = {} THEN store
    ELSE LET put == putManyLocalNotes(store, rows)
             userId == (CHOOSE r \in rows : TRUE).user_id
             stale == StoredIds(put, userId) \ {r.id : r \in rows}
         IN  IF stale = {} THEN put
             ELSE deleteLocalNote(put, CHOOSE i \in stale : \A j \in stale : i <= j)

\* mergeRemoteIntoLocal(remote): nothing on an empty array; otherwise put
\* every row, then delete every local note of remote[0].user_id whose id is
\* not among the rows
mergeRemoteIntoLocal(store, rows) ==
    IF rows = {} THEN store
    ELSE LET put == putManyLocalNotes(store, rows)
             userId == (CHOOSE r \in rows : TRUE).user_id
             remoteIds == {r.id : r \in rows}
         IN  [i \in DOMAIN put |->
                IF i \in StoredIds(put, userId) /\ i \notin remoteIds
                THEN NoNote ELSE put[i]]

\* filterPendingDeletes(rows)
filterPendingDeletes(pend, user_id, rows) ==
    {r \in rows : r.id \notin getPendingDeletes(pend, user_id)}

(***************************************************************************)
(* The note list controller (Index.tsx) of the signed-in owner Me.         *)
(***************************************************************************)
MIN_FETCH_INTERVAL_MS == 60 * 1000
FULL_SYNC_THRESHOLD_MS == 24 * 60 * 60 * 1000

Idle == [pc |-> "idle"]

\* a realtime event is delivered or lost; at most MaxEvents are in flight
Emit(evs, e) == IF Cardinality(evs) < MaxEvents THEN evs \cup {e} ELSE evs

ChangeEvent(rem, note) ==
    IF rem[note.id] = NoNote THEN [type |-> "INSERT", note |-> NoNote]
    ELSE [type |-> "UPDATE", note |-> note]

EmitDelete(evs, rem, id) ==
    IF rem[id] = NoNote THEN evs ELSE Emit(evs, [type |-> "DELETE", note |-> NoNote])

NewNote(id, title) ==
    [id |-> id, user_id |-> Me, title |-> title, content |-> <<>>,
     updated_at |-> now, tags |-> {}]

\* the notes the list shows
Shown == {n \in NoteIds : \E i \in DOMAIN getLocalNotes(notes, Me) :
            getLocalNotes(notes, Me)[i].id = n}

\* the choice made from lastFull alone
doFullIgnoringLastFetched(lastFull, lastFetched, t) ==
    lastFull = 0 \/ (t - lastFull) > FULL_SYNC_THRESHOLD_MS

\* const doFull = !lastFull || (now - lastFull) > FULL_SYNC_THRESHOLD_MS || !lastFetched

doFull(lastFull, lastFetched, t) ==
    lastFull = 0 \/ (t - lastFull) > FULL_SYNC_THRESHOLD_MS \/ lastFetched = 0

Init ==
    /\ notes = EmptyStore(NoteIds)
    /\ remote = EmptyStore(NoteIds)
    /\ pending = <<>>
    /\ nextKey = 1
    /\ dirty = 0
    /\ lastFetchedAt = 0
    /\ lastFullSync = 0
    /\ online = TRUE
    /\ now = 1
    /\ ticks = 0
    /\ events = {}
    /\ task = [t \in {"rec", "bg"} |-> Idle]
    /\ aux = [ids |-> 0, deleted |-> {}]

\* window 'offline'
GoOffline ==
    /\ online
    /\ online' = FALSE
    /\ UNCHANGED <<notes, pending, nextKey, dirty, lastFetchedAt, lastFullSync,
                   remote, now, ticks, events, task, aux>>

\* window 'online': onOnline runs syncPending, whose navigator.onLine test
\* passes at once, then fetchRemoteAndMerge
GoOnline ==
    /\ ~online
    /\ online' = TRUE
    /\ task' = IF task["rec"] = Idle
               THEN [task EXCEPT !["rec"] = [pc |-> "drainRead"]] ELSE task
    /\ UNCHANGED <<notes, pending, nextKey, dirty, lastFetchedAt, lastFullSync,
                   remote, now, ticks, events, aux>>

\* the clock advances by d milliseconds
Tick(d) ==
    /\ ticks < MaxTicks
    /\ now' = now + d
    /\ ticks' = ticks + 1
    /\ UNCHANGED <<notes, pending, nextKey, dirty, lastFetchedAt, lastFullSync,
                   remote, online, events, task, aux>>

\* saveNote, create branch, offline: makeId, putLocalNote, queueUpsert
CreateNoteOffline ==
    /\ ~online
    /\ aux.ids < MaxNotes
    /\ nextKey <= MaxOps
    /\ LET note == NewNote(aux.ids + 1, <<"x">>)
       IN  /\ notes' = putLocalNote(notes, note)
           /\ pending' = queueUpsert(pending, nextKey, note, now)
    /\ nextKey' = nextKey + 1
    /\ dirty' = 1
    /\ aux' = [aux EXCEPT !.ids = @ + 1]
    /\ UNCHANGED <<lastFetchedAt, lastFullSync, remote, online, now, ticks,
                   events, task>>

\* saveNote, create branch, online, the insert succeeding: insert, putLocalNote
CreateNoteOnline ==
    /\ online
    /\ aux.ids < MaxNotes
    /\ LET note == NewNote(aux.ids + 1, <<"x">>)
       IN  /\ remote' = [remote EXCEPT ![note.id] = note]
           /\ notes' = putLocalNote(notes, note)
           /\ events' = Emit(events, ChangeEvent(remote, note))
    /\ aux' = [aux EXCEPT !.ids = @ + 1]
    /\ UNCHANGED <<pending, nextKey, dirty, lastFetchedAt, lastFullSync, online,
                   now, ticks, task>>

\* saveNote, update branch, offline: putLocalNote, queueUpsert
UpdateNoteOffline(n) ==
    /\ ~online
    /\ n \in Shown
    /\ nextKey <= MaxOps
    /\ LET note == NewNote(n, <<"y">>)
       IN  /\ notes' = putLocalNote(notes, note)
           /\ pending' = queueUpsert(pending, nextKey, note, now)
    /\ nextKey' = nextKey + 1
    /\ dirty' = 1
    /\ UNCHANGED <<lastFetchedAt, lastFullSync, remote, online, now, ticks,
                   events, task, aux>>

\* saveNote, update branch, online, the update succeeding (it changes the
\* row when there is one): update, putLocalNote
UpdateNoteOnline(n) ==
    /\ online
    /\ n \in Shown
    /\ LET note == [NewNote(n, <<"y">>) EXCEPT !.user_id = notes[n].user_id]
       IN  /\ remote' = IF remote[n] = NoNote THEN remote
                        ELSE [remote EXCEPT ![n].title = note.title,
                                            ![n].content = note.content,
                                            ![n].updated_at = note.updated_at]
           /\ events' = IF remote[n] = NoNote THEN events
                        ELSE Emit(events, [type |-> "UPDATE", note |-> remote'[n]])
           /\ notes' = putLocalNote(notes, note)
    /\ UNCHANGED <<pending, nextKey, dirty, lastFetchedAt, lastFullSync, online,
                   now, ticks, task, aux>>

\* confirmDelete offline, or online with the Remote delete failing:
\* deleteLocalNote, queueDelete
DeleteNoteQueued(n) ==
    /\ n \in Shown
    /\ nextKey <= MaxOps
    /\ notes' = deleteLocalNote(notes, n)
    /\ pending' = queueDelete(pending, nextKey, n, Me, now)
    /\ nextKey' = nextKey + 1
    /\ dirty' = 1
    /\ UNCHANGED <<lastFetchedAt, lastFullSync, remote, online, now, ticks,
                   events, task, aux>>

\* confirmDelete online, the Remote delete succeeding: removePendingForNote,
\* deleteLocalNote
DeleteNoteOnline(n) ==
    /\ online
    /\ n \in Shown
    /\ remote' = [remote EXCEPT ![n] = NoNote]
    /\ events' = EmitDelete(events, remote, n)
    /\ pending' = removePendingForNote(pending, n, Me)
    /\ notes' = deleteLocalNote(notes, n)
    /\ UNCHANGED <<nextKey, dirty, lastFetchedAt, lastFullSync, online, now,
                   ticks, task, aux>>

\* confirmDeleteAll, the Remote delete succeeding: clearAllLocal
DeleteAll ==
    /\ online
    /\ Shown # {}
    /\ remote' = clearNotes(remote, Me)
    /\ notes' = clearNotes(notes, Me)
    /\ pending' = clearPending(pending, Me)
    /\ UNCHANGED <<nextKey, dirty, lastFetchedAt, lastFullSync, online, now,
                   ticks, events, task, aux>>

\* another device of the owner saves a row: the row gets a new updated_at
\* and the change is published
DeviceUpdate(n) ==
    /\ remote[n] # NoNote
    /\ remote' = [remote EXCEPT ![n].updated_at = now]
    /\ events' = Emit(events, [type |-> "UPDATE", note |-> remote'[n]])
    /\ remote' # remote \/ events' # events
    /\ UNCHANGED <<notes, pending, nextKey, dirty, lastFetchedAt, lastFullSync,
                   online, now, ticks, task, aux>>

\* another device of the owner deletes a row
DeviceDelete(n) ==
    /\ remote[n] # NoNote
    /\ remote' = [remote EXCEPT ![n] = NoNote]
    /\ events' = EmitDelete(events, remote, n)
    /\ UNCHANGED <<notes, pending, nextKey, dirty, lastFetchedAt, lastFullSync,
                   online, now, ticks, task, aux>>

\* realtime UPDATE handler: putLocalNote(payload.new)
OnRealtimeUpdate ==
    /\ online
    /\ \E e \in events :
        /\ e.type = "UPDATE"
        /\ notes' = putLocalNote(notes, e.note)
        /\ events' = events \ {e}
    /\ UNCHANGED <<pending, nextKey, dirty, lastFetchedAt, lastFullSync, remote,
                   online, now, ticks, task, aux>>

\* realtime INSERT and DELETE handlers: fetchRemoteAndMerge
OnRealtimeRefetch ==
    /\ online
    /\ task["bg"] = Idle
    /\ \E e \in events :
        /\ e.type \in {"INSERT", "DELETE"}
        /\ events' = events \ {e}
    /\ task' = [task EXCEPT !["bg"] = [pc |-> "meta"]]
    /\ UNCHANGED <<notes, pending, nextKey, dirty, lastFetchedAt, lastFullSync,
                   remote, online, now, ticks, aux>>

\* the 15 s poll: if (navigator.onLine) fetchRemoteAndMerge()
Poll(t) ==
    /\ online
    /\ task[t] = Idle
    /\ task' = [task EXCEPT ![t] = [pc |-> "meta"]]
    /\ UNCHANGED <<notes, pending, nextKey, dirty, lastFetchedAt, lastFullSync,
                   remote, online, now, ticks, events, aux>>

(***************************************************************************)
(* syncPending(userId), as onOnline runs it.  One readwrite transaction on *)
(* 'pending' is opened before the loop and used by every tx.store.delete   *)
(* in it, after the awaited Remote call of that iteration.  An IndexedDB   *)
(* transaction with no request outstanding commits when control returns    *)
(* to the event loop, so across the network round trip the transaction is  *)
(* finished and tx.store.delete throws; the try/catch around the Remote    *)
(* call and the delete turns that into the same break as a Remote error.   *)
(* The model keeps both outcomes of the delete.                            *)
(***************************************************************************)
RECURSIVE SkipOthers(_, _)
SkipOthers(todo, user_id) ==
    IF todo # <<>> /\ Head(todo).user_id # user_id
    THEN SkipOthers(Tail(todo), user_id) ELSE todo

\* the Remote call of one op: upsert(op.note) or delete().eq('id', op.noteId)
RemoteApply(rem, op) ==
    IF op.kind = "upsert" THEN [rem EXCEPT ![op.noteId] = op.note]
    ELSE [rem EXCEPT ![op.noteId] = NoNote]

OpEvent(evs, rem, op) ==
    IF op.kind = "upsert" THEN Emit(evs, ChangeEvent(rem, op.note))
    ELSE EmitDelete(evs, rem, op.noteId)

ReplayOrder(pend) == SortOps(pend)

\* getAll, getAllKeys, pair, sort by ts
DrainRead ==
    /\ task["rec"].pc = "drainRead"
    /\ task' = [task EXCEPT !["rec"] =
                 [pc |-> "drain", todo |-> ReplayOrder(pending),
                  mine |-> OpsOf(ReplayOrder(pending), Me), calls |-> <<>>,
                  failed |-> FALSE, count |-> 0]]
    /\ UNCHANGED <<notes, pending, nextKey, dirty, lastFetchedAt, lastFullSync,
                   remote, online, now, ticks, events, aux>>

\* one iteration on an op of the owner whose Remote call fails: break
DrainStepFail ==
    LET t == task["rec"] IN
    /\ t.pc = "drain"
    /\ SkipOthers(t.todo, Me) # <<>>
    /\ LET op == Head(SkipOthers(t.todo, Me))
       IN  task' = [task EXCEPT !["rec"] =
                     [t EXCEPT !.pc = "drainEnd", !.failed = TRUE,
                               !.calls = Append(@, op.key)]]
    /\ UNCHANGED <<notes, pending, nextKey, dirty, lastFetchedAt, lastFullSync,
                   remote, online, now, ticks, events, aux>>

\* one iteration on an op of the owner whose Remote call succeeds, and the
\* delete of the queue entry by its key
DrainStepOk ==
    LET t == task["rec"] IN
    /\ t.pc = "drain"
    /\ online
    /\ SkipOthers(t.todo, Me) # <<>>
    /\ LET op == Head(SkipOthers(t.todo, Me))
       IN  /\ remote' = RemoteApply(remote, op)
           /\ events' = OpEvent(events, remote, op)
           /\ aux' = IF op.kind = "delete"
                     THEN [aux EXCEPT !.deleted = @ \cup {op.noteId}] ELSE aux
           /\ \E txActive \in BOOLEAN :
                IF txActive
                THEN /\ pending' = removeOp(pending, op.key)
                     /\ task' = [task EXCEPT !["rec"] =
                                  [t EXCEPT !.todo = Tail(SkipOthers(t.todo, Me)),
                                            !.calls = Append(@, op.key),
                                            !.count = @ + 1]]
                ELSE /\ pending' = pending
                     /\ task' = [task EXCEPT !["rec"] =
                                  [t EXCEPT !.pc = "drainEnd",
                                            !.calls = Append(@, op.key)]]
    /\ UNCHANGED <<notes, nextKey, dirty, lastFetchedAt, lastFullSync, online,
                   now, ticks>>

\* the loop is over
DrainDone ==
    LET t == task["rec"] IN
    /\ t.pc = "drain"
    /\ SkipOthers(t.todo, Me) = <<>>
    /\ task' = [task EXCEPT !["rec"] = [t EXCEPT !.pc = "drainEnd", !.todo = <<>>]]
    /\ UNCHANGED <<notes, pending, nextKey, dirty, lastFetchedAt, lastFullSync,
                   remote, online, now, ticks, events, aux>>

\* an end of the drain after which the fetch runs only if an op was synced
DrainEndFetchIfSynced ==
    LET t == task["rec"] IN
    /\ t.pc = "drainEnd"
    /\ dirty' = IF t.count > 0 /\ getPendingCount(pending, Me) = 0 THEN 0 ELSE dirty
    /\ task' = [task EXCEPT !["rec"] = IF t.count > 0 THEN [pc |-> "meta"] ELSE Idle]
    /\ UNCHANGED <<notes, pending, nextKey, lastFetchedAt, lastFullSync, remote,
                   online, now, ticks, events, aux>>

\* after the loop: if (count > 0) and nothing of the owner is left, dirty = 0;
\* then onOnline goes on to fetchRemoteAndMerge
DrainEnd ==
    LET t == task["rec"] IN
    /\ t.pc = "drainEnd"
    /\ dirty' = IF t.count > 0 /\ getPendingCount(pending, Me) = 0 THEN 0 ELSE dirty
    /\ task' = [task EXCEPT !["rec"] = [pc |-> "meta"]]
    /\ UNCHANGED <<notes, pending, nextKey, lastFetchedAt, lastFullSync, remote,
                   online, now, ticks, events, aux>>

(***************************************************************************)
(* fetchRemoteAndMerge, one step per awaited call.                         *)
(***************************************************************************)
\* getLastFullSync, getLastFetchedAt, Date.now(), doFull
FetchMeta(t) ==
    /\ task[t].pc = "meta"
    /\ task' = [task EXCEPT ![t] =
                 [pc |-> "read",
                  mode |-> IF doFull(lastFullSync, lastFetchedAt, now)
                           THEN "full" ELSE "delta",
                  lastFull |-> lastFullSync, lastFetched |-> lastFetchedAt,
                  at |-> now]]
    /\ UNCHANGED <<notes, pending, nextKey, dirty, lastFetchedAt, lastFullSync,
                   remote, online, now, ticks, events, aux>>

\* the select succeeds
FetchReadOk(t) ==
    /\ task[t].pc = "read"
    /\ online
    /\ LET rows == IF task[t].mode = "delta"
                   THEN RemoteRowsSince(remote, Me, task[t].lastFetched)
                   ELSE RemoteRows(remote, Me)
       IN  task' = [task EXCEPT ![t] =
                     IF task[t].mode = "delta" /\ rows = {} THEN Idle
                     ELSE [pc |-> "filter", mode |-> task[t].mode, rows |-> rows]]
    /\ UNCHANGED <<notes, pending, nextKey, dirty, lastFetchedAt, lastFullSync,
                   remote, online, now, ticks, events, aux>>

\* the select fails: a failed Delta falls back to a Full select
FetchReadFail(t) ==
    /\ task[t].pc = "read"
    /\ task' = [task EXCEPT ![t] =
                 IF task[t].mode = "delta"
                 THEN [task[t] EXCEPT !.mode = "fallback"] ELSE Idle]
    /\ UNCHANGED <<notes, pending, nextKey, dirty, lastFetchedAt, lastFullSync,
                   remote, online, now, ticks, events, aux>>

\* filterPendingDeletes(data)
FetchFilter(t) ==
    /\ task[t].pc = "filter"
    /\ task' = [task EXCEPT ![t] =
                 [pc |-> "merge", mode |-> task[t].mode,
                  rows |-> filterPendingDeletes(pending, Me, task[t].rows)]]
    /\ UNCHANGED <<notes, pending, nextKey, dirty, lastFetchedAt, lastFullSync,
                   remote, online, now, ticks, events, aux>>

\* mergeRemoteIntoLocal(filtered) for a Full fetch, putManyLocalNotes(filtered)
\* for a Delta
FetchMerge(t) ==
    /\ task[t].pc = "merge"
    /\ notes' = IF task[t].mode = "delta"
                THEN putManyLocalNotes(notes, task[t].rows)
                ELSE mergeRemoteIntoLocal(notes, task[t].rows)
    /\ task' = [task EXCEPT ![t] =
                 [pc |-> IF task[t].mode = "delta" THEN "setFetched" ELSE "setFull"]]
    /\ UNCHANGED <<pending, nextKey, dirty, lastFetchedAt, lastFullSync, remote,
                   online, now, ticks, events, aux>>

\* setLastFullSync(userId)
FetchSetFull(t) ==
    /\ task[t].pc = "setFull"
    /\ lastFullSync' = now
    /\ task' = [task EXCEPT ![t] = [pc |-> "setFetched"]]
    /\ UNCHANGED <<notes, pending, nextKey, dirty, lastFetchedAt, remote, online,
                   now, ticks, events, aux>>

\* setLastFetchedAt(userId)
FetchSetFetched(t) ==
    /\ task[t].pc = "setFetched"
    /\ lastFetchedAt' = now
    /\ task' = [task EXCEPT ![t] = Idle]
    /\ UNCHANGED <<notes, pending, nextKey, dirty, lastFullSync, remote, online,
                   now, ticks, events, aux>>

Fetch(t) ==
    \/ FetchMeta(t)
    \/ FetchReadOk(t)
    \/ FetchReadFail(t)
    \/ FetchFilter(t)
    \/ FetchMerge(t)
    \/ FetchSetFull(t)
    \/ FetchSetFetched(t)

(***************************************************************************)
(* Spec: one reconnect flow (drain, then fetch) and one background fetch   *)
(* interleaved step by step with local deletes, offline creates and a      *)
(* second device.  The clock stands still here; SpecSync and SpecFetch     *)
(* let it advance.                                                         *)
(***************************************************************************)
Next ==
    \/ GoOffline
    \/ GoOnline
    \/ CreateNoteOffline
    \/ CreateNoteOnline
    \/ \E n \in NoteIds : DeleteNoteQueued(n)
    \/ \E n \in NoteIds : DeviceUpdate(n)
    \/ OnRealtimeUpdate
    \/ OnRealtimeRefetch
    \/ Poll("bg")
    \/ DrainRead
    \/ DrainStepFail
    \/ DrainStepOk
    \/ DrainDone
    \/ DrainEnd
    \/ \E t \in {"rec", "bg"} : Fetch(t)

Spec == Init /\ [][Next]_vars

(***************************************************************************)
(* SpecSync: the queue and its drain, with every local mutation and a      *)
(* running clock, without background fetches.                              *)
(***************************************************************************)
NextSync ==
    \/ GoOffline
    \/ GoOnline
    \/ Tick(1)
    \/ CreateNoteOffline
    \/ \E n \in NoteIds : UpdateNoteOffline(n)
    \/ \E n \in NoteIds : DeleteNoteQueued(n)
    \/ DrainRead
    \/ DrainStepFail
    \/ DrainStepOk
    \/ DrainDone
    \/ DrainEnd
    \/ Fetch("rec")

SpecSync == Init /\ [][NextSync]_vars

(***************************************************************************)
(* SpecFetch: two fetchRemoteAndMerge runs interleaved while the clock     *)
(* advances by a millisecond or by the full-sync threshold.                *)
(***************************************************************************)
InitFetch ==
    /\ notes = EmptyStore(NoteIds)
    /\ remote = [EmptyStore(NoteIds) EXCEPT ![1] =
                    [id |-> 1, user_id |-> Me, title |-> <<"x">>,
                     content |-> <<>>, updated_at |-> 1, tags |-> {}]]
    /\ pending = <<>>
    /\ nextKey = 1
    /\ dirty = 0
    /\ lastFetchedAt = 0
    /\ lastFullSync = 0
    /\ online = TRUE
    /\ now = 1
    /\ ticks = 0
    /\ events = {}
    /\ task = [t \in {"rec", "bg"} |-> Idle]
    /\ aux = [ids |-> 1, deleted |-> {}]

NextFetch ==
    \/ \E d \in {1, FULL_SYNC_THRESHOLD_MS} : Tick(d)
    \/ \E n \in NoteIds : DeviceUpdate(n)
    \/ \E t \in {"rec", "bg"} : Poll(t)
    \/ \E t \in {"rec", "bg"} : Fetch(t)

SpecFetch == InitFetch /\ [][NextFetch]_vars

(***************************************************************************)
(* Stores drawn from bounded sets, for the operations whose result depends *)
(* on the stored notes only.                                               *)
(***************************************************************************)
StoredNote(user_id, title, content, ts, tags) ==
    [id |-> 0, user_id |-> user_id, title |-> title, content |-> content,
     updated_at |-> ts, tags |-> tags]

\* the store that holds at key i the note shape[i], NoNote standing for none
StoreOf(shape) ==
    [i \in DOMAIN shape |->
        IF shape[i] = NoNote THEN NoNote ELSE [shape[i] EXCEPT !.id = i]]

Quiet ==
    /\ remote = EmptyStore(NoteIds)
    /\ nextKey = 1
    /\ dirty = 0
    /\ lastFetchedAt = 0
    /\ lastFullSync = 0
    /\ online = TRUE
    /\ now = 1
    /\ ticks = 0
    /\ events = {}

(***************************************************************************)
(* SpecMerge: the filter and merge steps of fetchRemoteAndMerge run twice  *)
(* on one remote snapshot, from every store, snapshot, queued Delete and   *)
(* fetch kind within the bounds.  A Delta fetch with no rows returns       *)
(* before its merge, so a Delta run starts with a non-empty snapshot.      *)
(***************************************************************************)
Snapshots ==
    {{[StoredNote(Me, <<"y">>, <<>>, 1, {}) EXCEPT !.id = i] : i \in ids} :
        ids \in SUBSET ListIds}

InitMerge ==
    /\ Quiet
    /\ \E shape \in [ListIds -> {NoNote} \cup
                        {StoredNote(o, <<"x">>, <<>>, 1, {}) : o \in Owners}] :
         /\ notes = StoreOf(shape)
         /\ \E rows \in Snapshots, mode \in {"full", "delta"} :
              /\ mode = "delta" => rows # {}
              /\ task = [rec |-> Idle,
                         bg |-> [pc |-> "filter", mode |-> mode, rows |-> rows]]
              /\ aux = [stage |-> 0, mode |-> mode, rows |-> rows,
                        start |-> StoreOf(shape), once |-> StoreOf(shape)]
    /\ pending \in {<<>>} \cup {queueDelete(<<>>, 1, i, Me, 1) : i \in ListIds}

\* the same snapshot is handed to the filter and the merge a second time
MergeAgain ==
    /\ aux.stage = 0
    /\ task["bg"].pc \in {"setFull", "setFetched"}
    /\ aux' = [aux EXCEPT !.stage = 1, !.once = notes]
    /\ task' = [task EXCEPT !["bg"] =
                 [pc |-> "filter", mode |-> aux.mode, rows |-> aux.rows]]
    /\ UNCHANGED <<notes, pending, nextKey, dirty, lastFetchedAt, lastFullSync,
                   remote, online, now, ticks, events>>

NextMerge ==
    \/ FetchFilter("bg")
    \/ FetchMerge("bg")
    \/ MergeAgain

SpecMerge == InitMerge /\ [][NextMerge]_vars

(***************************************************************************)
(* SpecOrder and SpecFilter: getLocalNotes(Me) on every store within the   *)
(* bounds; SpecOrder varies owner, updated_at and the 'pinned' tag,        *)
(* SpecFilter varies owner, title and content.                             *)
(***************************************************************************)
\* const local = await offline.getLocalNotes(userId)
ListNotes ==
    /\ aux.stage = 0
    /\ aux' = [stage |-> 1, list |-> getLocalNotes(notes, Me)]
    /\ UNCHANGED <<notes, pending, nextKey, dirty, lastFetchedAt, lastFullSync,
                   remote, online, now, ticks, events, task>>

InitOrder ==
    /\ Quiet
    /\ pending = <<>>
    /\ task = [t \in {"rec", "bg"} |-> Idle]
    /\ aux = [stage |-> 0, list |-> <<>>]
    /\ \E shape \in [ListIds -> {NoNote} \cup
                        {StoredNote(o, <<"x">>, <<>>, ts, tags) :
                            o \in Owners, ts \in 1..MaxTime,
                            tags \in {{}, {"pinned"}}}] :
         notes = StoreOf(shape)

SpecOrder == InitOrder /\ [][ListNotes]_vars

FilterIds == {1, 2}

InitFilter ==
    /\ Quiet
    /\ pending = <<>>
    /\ task = [t \in {"rec", "bg"} |-> Idle]
    /\ aux = [stage |-> 0, list |-> <<>>]
    /\ \E shape \in [FilterIds -> {NoNote} \cup
                        {StoredNote(o, title, content, 1, {}) :
                            o \in Owners, title \in {<<>>, <<" ">>, <<"x">>},
                            content \in StrUpTo(MaxLen)}] :
         notes = StoreOf(shape)

SpecFilter == InitFilter /\ [][ListNotes]_vars

(***************************************************************************)
(* The mutation handlers (saveNote, togglePin, confirmDelete,              *)
(* confirmDeleteAll) one step per awaited Remote call: the step that       *)
(* starts the handler, up to the Remote call it makes if it makes one, and *)
(* the step that gets the Remote call's result and runs the rest of the    *)
(* handler.  aux.ui holds the handler in progress.                         *)
(***************************************************************************)
UiIdle == [pc |-> "idle"]

UiCall(kind, n, note) == [pc |-> "remote", kind |-> kind, n |-> n, note |-> note]

\* const nextTags = isPinned ? currentTags.filter(t => t !== 'pinned')
\*                           : [...currentTags, 'pinned']
NextTags(note) ==
    IF IsPinned(note) THEN note.tags \ {"pinned"} ELSE note.tags \cup {"pinned"}

\* saveNote, create branch: online the insert is awaited; offline makeId,
\* putLocalNote, queueUpsert
UiCreate ==
    /\ aux.ui = UiIdle
    /\ aux.ids < MaxNotes
    /\ LET note == NewNote(aux.ids + 1, <<"x">>)
       IN  IF online
           THEN /\ aux' = [aux EXCEPT !.ids = @ + 1,
                                      !.ui = UiCall("create", note.id, note)]
                /\ UNCHANGED <<notes, pending, nextKey, dirty>>
           ELSE /\ nextKey <= MaxOps
                /\ notes' = putLocalNote(notes, note)
                /\ pending' = queueUpsert(pending, nextKey, note, now)
                /\ nextKey' = nextKey + 1
                /\ dirty' = 1
                /\ aux' = [aux EXCEPT !.ids = @ + 1]
    /\ UNCHANGED <<lastFetchedAt, lastFullSync, remote, online, now, ticks,
                   events, task>>

\* saveNote, update branch: online the update is awaited; offline
\* putLocalNote, queueUpsert
UiSave(n) ==
    /\ aux.ui = UiIdle
    /\ n \in Shown
    /\ IF online
       THEN /\ aux' = [aux EXCEPT !.ui =
                        UiCall("update", n,
                               [NewNote(n, <<"y">>) EXCEPT !.user_id = notes[n].user_id])]
            /\ UNCHANGED <<notes, pending, nextKey, dirty>>
       ELSE /\ nextKey <= MaxOps
            /\ notes' = putLocalNote(notes, NewNote(n, <<"y">>))
            /\ pending' = queueUpsert(pending, nextKey, NewNote(n, <<"y">>), now)
            /\ nextKey' = nextKey + 1
            /\ dirty' = 1
            /\ aux' = aux
    /\ UNCHANGED <<lastFetchedAt, lastFullSync, remote, online, now, ticks,
                   events, task>>

\* saveNote, empty note branch: online the Remote delete is awaited; offline
\* deleteLocalNote, queueDelete
UiSaveEmpty(n) ==
    /\ aux.ui = UiIdle
    /\ n \in Shown
    /\ IF online
       THEN /\ aux' = [aux EXCEPT !.ui = UiCall("empty", n, NoNote)]
            /\ UNCHANGED <<notes, pending, nextKey, dirty>>
       ELSE /\ nextKey <= MaxOps
            /\ notes' = deleteLocalNote(notes, n)
            /\ pending' = queueDelete(pending, nextKey, n, Me, now)
            /\ nextKey' = nextKey + 1
            /\ dirty' = 1
            /\ aux' = aux
    /\ UNCHANGED <<lastFetchedAt, lastFullSync, remote, online, now, ticks,
                   events, task>>

\* confirmDelete: online the Remote delete is awaited; offline
\* deleteLocalNote, queueDelete
UiDelete(n) ==
    /\ aux.ui = UiIdle
    /\ n \in Shown
    /\ IF online
       THEN /\ aux' = [aux EXCEPT !.ui = UiCall("delete", n, notes[n])]
            /\ UNCHANGED <<notes, pending, nextKey, dirty>>
       ELSE /\ nextKey <= MaxOps
            /\ notes' = deleteLocalNote(notes, n)
            /\ pending' = queueDelete(pending, nextKey, n, Me, now)
            /\ nextKey' = nextKey + 1
            /\ dirty' = 1
            /\ aux' = aux
    /\ UNCHANGED <<lastFetchedAt, lastFullSync, remote, online, now, ticks,
                   events, task>>

\* togglePin: the update of the tags column is awaited whatever
\* navigator.onLine is
UiTogglePin(n) ==
    /\ aux.ui = UiIdle
    /\ n \in Shown
    /\ aux' = [aux EXCEPT !.ui =
                UiCall("pin", n, [notes[n] EXCEPT !.tags = NextTags(notes[n])])]
    /\ UNCHANGED <<notes, pending, nextKey, dirty, lastFetchedAt, lastFullSync,
                   remote, online, now, ticks, events, task>>

\* confirmDeleteAll: the Remote delete of every row of the owner is awaited
\* whatever navigator.onLine is
UiDeleteAll ==
    /\ aux.ui = UiIdle
    /\ Shown # {}
    /\ aux' = [aux EXCEPT !.ui = UiCall("deleteAll", 0, NoNote)]
    /\ UNCHANGED <<notes, pending, nextKey, dirty, lastFetchedAt, lastFullSync,
                   remote, online, now, ticks, events, task>>

\* the Remote call succeeds and the handler goes on: putLocalNote of the
\* saved note; removePendingForNote and deleteLocalNote (confirmDelete);
\* deleteLocalNote (saveNote of an emptied note); clearAllLocal
UiRemoteOk ==
    LET ui == aux.ui IN
    /\ ui.pc = "remote"
    /\ online
    /\ remote' =
         IF ui.kind = "create" THEN [remote EXCEPT ![ui.n] = ui.note]
         ELSE IF ui.kind = "update" /\ remote[ui.n] # NoNote
              THEN [remote EXCEPT ![ui.n].title = ui.note.title,
                                  ![ui.n].content = ui.note.content,
                                  ![ui.n].updated_at = ui.note.updated_at]
         ELSE IF ui.kind = "pin" /\ remote[ui.n] # NoNote
              THEN [remote EXCEPT ![ui.n].tags = ui.note.tags]
         ELSE IF ui.kind \in {"delete", "empty"} THEN [remote EXCEPT ![ui.n] = NoNote]
         ELSE IF ui.kind = "deleteAll" THEN clearNotes(remote, Me)
         ELSE remote
    /\ events' =
         IF ui.kind = "create" THEN Emit(events, ChangeEvent(remote, ui.note))
         ELSE IF ui.kind \in {"update", "pin"} /\ remote[ui.n] # NoNote
              THEN Emit(events, [type |-> "UPDATE", note |-> remote'[ui.n]])
         ELSE IF ui.kind \in {"delete", "empty"} THEN EmitDelete(events, remote, ui.n)
         ELSE IF ui.kind = "deleteAll" /\ remote' # remote
              THEN Emit(events, [type |-> "DELETE", note |-> NoNote])
         ELSE events
    /\ notes' =
         IF ui.kind \in {"create", "update", "pin"} THEN putLocalNote(notes, ui.note)
         ELSE IF ui.kind \in {"delete", "empty"} THEN deleteLocalNote(notes, ui.n)
         ELSE clearNotes(notes, Me)
    /\ pending' =
         IF ui.kind = "delete" THEN removePendingForNote(pending, ui.n, Me)
         ELSE IF ui.kind = "deleteAll" THEN clearPending(pending, Me)
         ELSE pending
    /\ aux' = [aux EXCEPT !.ui = UiIdle]
    /\ UNCHANGED <<nextKey, dirty, lastFetchedAt, lastFullSync, online, now,
                   ticks, task>>

\* the Remote call fails: confirmDelete falls back to deleteLocalNote and
\* queueDelete; saveNote, togglePin and confirmDeleteAll catch the error
UiRemoteFail ==
    LET ui == aux.ui IN
    /\ ui.pc = "remote"
    /\ IF ui.kind = "delete"
       THEN /\ nextKey <= MaxOps
            /\ notes' = deleteLocalNote(notes, ui.n)
            /\ pending' = queueDelete(pending, nextKey, ui.n, Me, now)
            /\ nextKey' = nextKey + 1
            /\ dirty' = 1
       ELSE UNCHANGED <<notes, pending, nextKey, dirty>>
    /\ aux' = [aux EXCEPT !.ui = UiIdle]
    /\ UNCHANGED <<lastFetchedAt, lastFullSync, remote, online, now, ticks,
                   events, task>>

\* a handler starts
UiStart ==
    \/ UiCreate
    \/ UiDeleteAll
    \/ \E n \in NoteIds : UiSave(n) \/ UiSaveEmpty(n) \/ UiDelete(n) \/ UiTogglePin(n)

(***************************************************************************)
(* SpecUi: the mutation handlers step by step, with connectivity changes   *)
(* and the reconnect flow; the first note is the one edited and pinned.    *)
(***************************************************************************)
InitUi ==
    /\ notes = EmptyStore(NoteIds)
    /\ remote = EmptyStore(NoteIds)
    /\ pending = <<>>
    /\ nextKey = 1
    /\ dirty = 0
    /\ lastFetchedAt = 0
    /\ lastFullSync = 0
    /\ online = TRUE
    /\ now = 1
    /\ ticks = 0
    /\ events = {}
    /\ task = [t \in {"rec", "bg"} |-> Idle]
    /\ aux = [ids |-> 0, deleted |-> {}, ui |-> UiIdle]

NextUi ==
    \/ GoOffline
    \/ GoOnline
    \/ UiCreate
    \/ UiDeleteAll
    \/ UiSave(1)
    \/ UiSaveEmpty(1)
    \/ \E n \in NoteIds : UiDelete(n)
    \/ UiTogglePin(1)
    \/ UiRemoteOk
    \/ UiRemoteFail
    \/ DrainRead
    \/ DrainStepFail
    \/ DrainStepOk
    \/ DrainDone
    \/ DrainEnd
    \/ Fetch("rec")

SpecUi == InitUi /\ [][NextUi]_vars

(***************************************************************************)
(* SpecRealtime: a client whose two notes are in step with Remote after a  *)
(* Full fetch, while another device deletes the first note and saves the   *)
(* second; fetchRemoteAndMerge is started by the realtime handlers only.   *)
(***************************************************************************)
InitRealtime ==
    /\ notes = [i \in NoteIds |->
                  IF i <= 2 THEN [StoredNote(Me, <<"x">>, <<>>, 1, {}) EXCEPT !.id = i]
                  ELSE NoNote]
    /\ remote = notes
    /\ pending = <<>>
    /\ nextKey = 1
    /\ dirty = 0
    /\ lastFetchedAt = 1
    /\ lastFullSync = 1
    /\ online = TRUE
    /\ now = 1
    /\ ticks = 0
    /\ events = {}
    /\ task = [t \in {"rec", "bg"} |-> Idle]
    /\ aux = [ids |-> 2, deleted |-> {}]

NextRealtime ==
    \/ \E d \in {1, FULL_SYNC_THRESHOLD_MS} : Tick(d)
    \/ DeviceDelete(1)
    \/ DeviceUpdate(2)
    \/ OnRealtimeUpdate
    \/ OnRealtimeRefetch
    \/ Fetch("bg")

SpecRealtime == InitRealtime /\ [][NextRealtime]_vars

(***************************************************************************)
(* SpecDrain: syncPending(Me) followed by the fetch of onOnline, started   *)
(* on every queue within the bounds and again on every reconnect.  The     *)
(* queue holds ops of the owner and ops left by another owner of the same  *)
(* browser profile; ts grows with the queue key, or is the same for every  *)
(* op.                                                                     *)
(***************************************************************************)
MaxQueue == MaxOps + 1

DrainShapes ==
    {[kind |-> k, noteId |-> i, user_id |-> Me] :
        k \in {"upsert", "delete"}, i \in 1..(MaxNotes - 1)}
    \cup {[kind |-> k, noteId |-> MaxNotes, user_id |-> o] :
        k \in {"upsert", "delete"}, o \in Owners \ {Me}}

\* the queue whose entry of key i is the op shape[i]
QueueOf(shape, same) ==
    [i \in DOMAIN shape |->
        LET ts == IF same THEN 1 ELSE i IN
        IF shape[i].kind = "upsert"
        THEN UpsertOp(i, [id |-> shape[i].noteId, user_id |-> shape[i].user_id,
                          title |-> <<"x">>, content |-> <<>>,
                          updated_at |-> ts, tags |-> {}], ts)
        ELSE DeleteOp(i, shape[i].noteId, shape[i].user_id, ts)]

\* the notes the queued mutations left in LocalStore
StoreAfter(pend) ==
    [i \in NoteIds |->
        LET at == {j \in DOMAIN pend : pend[j].noteId = i} IN
        IF at = {} THEN NoNote
        ELSE LET last == pend[CHOOSE j \in at : \A k \in at : k <= j] IN
             IF last.kind = "upsert" THEN last.note ELSE NoNote]

InitDrain ==
    /\ \E n \in 0..MaxQueue : \E shape \in [1..n -> DrainShapes] :
         \E same \in BOOLEAN :
            /\ n <= 1 => same
            /\ pending = QueueOf(shape, same)
            /\ notes = StoreAfter(QueueOf(shape, same))
            /\ nextKey = n + 1
            /\ dirty = IF n > 0 THEN 1 ELSE 0
    /\ \E onRemote \in BOOLEAN :
         remote = IF onRemote
                  THEN [EmptyStore(NoteIds) EXCEPT ![1] =
                          [id |-> 1, user_id |-> Me, title |-> <<"y">>,
                           content |-> <<>>, updated_at |-> 1, tags |-> {}]]
                  ELSE EmptyStore(NoteIds)
    /\ lastFetchedAt = 0
    /\ lastFullSync = 0
    /\ online = TRUE
    /\ now = MaxQueue + 1
    /\ ticks = 0
    /\ events = {}
    /\ task = [rec |-> [pc |-> "drainRead"], bg |-> Idle]
    /\ aux = [ids |-> MaxNotes, deleted |-> {}]

NextDrain ==
    \/ GoOffline
    \/ GoOnline
    \/ DrainRead
    \/ DrainStepFail
    \/ DrainStepOk
    \/ DrainDone
    \/ DrainEnd
    \/ Fetch("rec")

SpecDrain == InitDrain /\ [][NextDrain]_vars

(***************************************************************************)
(* SpecDelta: one fetchRemoteAndMerge at a time, started by the timer,     *)
(* while the clock advances and another device of the owner saves notes    *)
(* online or pushes the notes it saved while offline.                      *)
(***************************************************************************)
\* syncPending on another device: upsert(op.note), the note carrying the
\* updated_at of the time it was saved
DeviceDrain(n) ==
    /\ \E ts \in 1..now :
         remote' = [remote EXCEPT ![n] =
                      [id |-> n, user_id |-> Me, title |-> <<"y">>,
                       content |-> <<>>, updated_at |-> ts, tags |-> {}]]
    /\ remote' # remote
    /\ events' = Emit(events, ChangeEvent(remote, remote'[n]))
    /\ UNCHANGED <<notes, pending, nextKey, dirty, lastFetchedAt, lastFullSync,
                   online, now, ticks, task, aux>>

NextDelta ==
    \/ Tick(1)
    \/ \E n \in NoteIds : DeviceUpdate(n)
    \/ \E n \in NoteIds : DeviceDrain(n)
    \/ Poll("bg")
    \/ Fetch("bg")

SpecDelta == InitFetch /\ [][NextDelta]_vars

(***************************************************************************)
(* SpecClear: clearAllLocal(user_id) applied, for either owner and up to   *)
(* twice, to every store over ListIds and every queue within the bounds.   *)
(***************************************************************************)
InitClear ==
    /\ Quiet
    /\ task = [t \in {"rec", "bg"} |-> Idle]
    /\ \E shape \in [ListIds -> {NoNote} \cup
                        {StoredNote(o, <<"x">>, <<>>, 1, {}) : o \in Owners}] :
       \E n \in 0..MaxQueue : \E ops \in [1..n -> DrainShapes] :
         /\ notes = StoreOf(shape)
         /\ pending = QueueOf(ops, TRUE)
         /\ aux = [stage |-> 0, owner |-> Me, notes |-> StoreOf(shape),
                   pending |-> QueueOf(ops, TRUE)]

\* clearAllLocal(user_id): one transaction on 'notes' and 'pending'
ClearAllLocal(user_id) ==
    /\ aux.stage < 2
    /\ notes' = clearNotes(notes, user_id)
    /\ pending' = clearPending(pending, user_id)
    /\ aux' = [stage |-> aux.stage + 1, owner |-> user_id, notes |-> notes,
               pending |-> pending]
    /\ UNCHANGED <<nextKey, dirty, lastFetchedAt, lastFullSync, remote, online,
                   now, ticks, events, task>>

NextClear == \E o \in Owners : ClearAllLocal(o)

SpecClear == InitClear /\ [][NextClear]_vars

(***************************************************************************)
(* Properties.                                                             *)
(***************************************************************************)

\* C1 (no resurrection): a note of the owner that has a queued Delete is not
\* in LocalStore, whatever remote data has come in (a local delete removes
\* the note before it queues the Delete, so only a path that brings remote
\* data in can put it back).
C1_NoResurrection ==
    \A n \in getPendingDeletes(pending, Me) : notes[n] = NoNote

\* C3 (no unsynced local note is lost): a note with a queued Upsert and no
\* queued Delete stays in LocalStore until Remote has confirmed the Upsert.
C3_UnsyncedNoteKept ==
    \A n \in PendingUpserts(pending, Me) \ getPendingDeletes(pending, Me) :
        notes[n] # NoNote

\* C4 (Scenario B generalized): once the queued Delete of a note has been
\* sent to Remote successfully by the drain, no merge step of a fetch puts
\* the note back into LocalStore.
C4_NoReAddAfterDrainedDelete ==
    [][\A n \in aux.deleted :
        ((\E t \in {"rec", "bg"} : FetchMerge(t)) /\ notes[n] = NoNote)
            => notes'[n] = NoNote]_vars

\* C2 (queue order preserved): a syncPending run makes its Remote calls for
\* the ops of the owner in enqueue order and stops only at the first call
\* that fails: when the k-th call has failed, the calls made are those for
\* ops 1..k, ops k..n are still queued and none of ops 1..k-1 is; when no
\* call has failed, a call was made for every op.
C2_QueueOrderPreserved ==
    LET t == task["rec"] IN
    t.pc = "drainEnd" =>
        LET k == Len(t.calls) IN
        /\ k <= Len(t.mine)
        /\ \A i \in 1..k : t.calls[i] = t.mine[i].key
        /\ t.failed =>
             \A i \in 1..Len(t.mine) :
                (t.mine[i].key \in OpKeys(pending)) <=> (i >= k)
        /\ ~t.failed => k = Len(t.mine)

\* C5 (offline changes are synced on reconnect): when the syncPending run
\* started by the reconnect ends without a failed Remote call, every op of
\* the owner that was queued when it started has been sent to Remote and is
\* no longer in the queue.
C5_SyncedOnReconnect ==
    LET t == task["rec"] IN
    (t.pc = "drainEnd" /\ ~t.failed) =>
        \A i \in 1..Len(t.mine) :
            /\ \E j \in 1..Len(t.calls) : t.calls[j] = t.mine[i].key
            /\ t.mine[i].key \notin OpKeys(pending)

\* C6 (Scenario A): a note created offline is listed at once and raises
\* pendingCount(owner) by one; and when a syncPending run ends in which no
\* Remote call failed and every op the owner has queued was sent, then
\* pendingCount(owner) is 0 and the dirty flag is false.
C6_ScenarioA ==
    [][/\ CreateNoteOffline =>
            /\ aux'.ids \in {getLocalNotes(notes', Me)[i].id :
                                i \in DOMAIN getLocalNotes(notes', Me)}
            /\ getPendingCount(pending', Me) = getPendingCount(pending, Me) + 1
       /\ (/\ DrainEnd
           /\ ~task["rec"].failed
           /\ task["rec"].calls # <<>>
           /\ \A i \in DOMAIN pending :
                pending[i].user_id = Me =>
                    \E j \in 1..Len(task["rec"].calls) :
                        task["rec"].calls[j] = pending[i].key)
            => (getPendingCount(pending', Me) = 0 /\ dirty' = 0)]_vars

\* C7 (idempotent merge): running the filter and merge of one remote
\* snapshot a second time leaves LocalStore as the first run left it, for a
\* Full and for a Delta fetch and for the empty snapshot.
C7_IdempotentMerge ==
    (aux.stage = 1 /\ task["bg"].pc \in {"setFull", "setFetched"})
        => notes = aux.once

\* a second Full merge is over, of a snapshot that still holds a note with
\* a queued Delete, and the first one removed two stored notes of the owner
C7_Witness ==
    /\ aux.stage = 1
    /\ task["bg"].pc = "setFull"
    /\ aux.rows # {}
    /\ \E r \in aux.rows : r.id \in getPendingDeletes(pending, Me)
    /\ Cardinality(StoredIds(aux.start, Me) \ StoredIds(aux.once, Me)) >= 2
    /\ notes = aux.once

\* C8 (pin ordering): in the list getLocalNotes returns, every note with the
\* 'pinned' tag comes before every note without it, and inside each of the
\* two groups updated_at does not increase.
C8_PinOrdering ==
    aux.stage = 1 =>
        \A i, j \in DOMAIN aux.list :
            i < j =>
                /\ IsPinned(aux.list[j]) => IsPinned(aux.list[i])
                /\ (IsPinned(aux.list[i]) <=> IsPinned(aux.list[j]))
                     => aux.list[i].updated_at >= aux.list[j].updated_at

\* a list of three notes, pinned and not, that is not in key order
C8_Witness ==
    /\ aux.stage = 1
    /\ Len(aux.list) >= 3
    /\ \E i, j \in DOMAIN aux.list :
         /\ IsPinned(aux.list[i]) /\ ~IsPinned(aux.list[j])
         /\ aux.list[i].id > aux.list[j].id
         /\ aux.list[i].updated_at < aux.list[j].updated_at
    /\ \E i, j \in DOMAIN aux.list :
         /\ i < j
         /\ IsPinned(aux.list[i]) <=> IsPinned(aux.list[j])
         /\ aux.list[i].updated_at > aux.list[j].updated_at

\* position i of s is left by the markup stripping: it is not part of a
\* stretch that runs from a "<" to the first ">" after it
Kept(s, i) ==
    ~\E j \in 1..i :
        /\ s[j] = "<"
        /\ \A m \in j..(i - 1) : s[m] # ">"
        /\ \E k \in i..Len(s) : k > j /\ s[k] = ">"

\* the note has a character other than a space in its title, or one in its
\* content outside markup
Visible(n) ==
    \/ \E i \in DOMAIN n.title : n.title[i] # " "
    \/ \E i \in DOMAIN n.content : n.content[i] # " " /\ Kept(n.content, i)

\* C9 (empty-note filter): the list getLocalNotes returns for an owner holds,
\* once each, exactly the stored notes of that owner whose trimmed title or
\* trimmed markup-free content is not empty; a stored note with neither, and
\* a note of another owner, is not in it.
C9_EmptyNoteFilter ==
    aux.stage = 1 =>
        /\ {aux.list[i] : i \in DOMAIN aux.list} =
              {notes[i] : i \in {j \in DOMAIN notes :
                  notes[j] # NoNote /\ notes[j].user_id = Me /\ Visible(notes[j])}}
        /\ Len(aux.list) = Cardinality({aux.list[i] : i \in DOMAIN aux.list})

\* the store holds a note of the owner with nothing to show, one of the
\* owner whose content shows text next to markup, and the list has the latter
C9_Witness ==
    /\ aux.stage = 1
    /\ \E i, j \in DOMAIN notes :
         /\ notes[i] # NoNote /\ notes[i].user_id = Me
         /\ notes[i].title = <<>> /\ notes[i].content # <<>>
         /\ \A k \in DOMAIN aux.list : aux.list[k] # notes[i]
         /\ notes[j] # NoNote /\ notes[j].user_id = Me
         /\ Trim(notes[j].title) = <<>>
         /\ \E k \in DOMAIN aux.list : aux.list[k] = notes[j]

\* C10 (fetch kind selection): fetchRemoteAndMerge starts with a Full fetch
\* exactly when lastFullSync is unset or older than FULL_SYNC_THRESHOLD_MS,
\* or lastFetchedAt is unset; otherwise it starts with a Delta fetch.
C10_FetchKind ==
    \A t \in {"rec", "bg"} :
        (task[t].pc = "read" /\ task[t].mode # "fallback") =>
            /\ task[t].mode \in {"full", "delta"}
            /\ task[t].mode = "full" <=>
                 \/ task[t].lastFull = 0
                 \/ task[t].at - task[t].lastFull > 24 * 60 * 60 * 1000
                 \/ task[t].lastFetched = 0

\* Scenario C: lastFullSync is older than the threshold, lastFetchedAt is a
\* millisecond old, and the fetch is a Full one
C10_Witness ==
    \E t \in {"rec", "bg"} :
        /\ task[t].pc = "read"
        /\ task[t].mode = "full"
        /\ task[t].lastFull # 0
        /\ task[t].lastFetched > task[t].lastFull
        /\ task[t].at - task[t].lastFetched = 1
        /\ task[t].at - task[t].lastFull > 24 * 60 * 60 * 1000

\* C10 as the claim words it: Full exactly when lastFullSync is unset or
\* older than the threshold, whatever lastFetchedAt is; otherwise Delta.
C10_FetchKindWhateverLastFetched ==
    \A t \in {"rec", "bg"} :
        (task[t].pc = "read" /\ task[t].mode # "fallback") =>
            (task[t].mode = "full" <=>
                 \/ task[t].lastFull = 0
                 \/ task[t].at - task[t].lastFull > 24 * 60 * 60 * 1000)

\* the mutation a handler in progress is making is in LocalStore
UiApplied(ui) ==
    IF ui.kind = "delete" THEN notes[ui.n] = NoNote
    ELSE IF ui.kind = "deleteAll" THEN StoredIds(notes, Me) = {}
    ELSE notes[ui.n] = ui.note

\* C11 (local write first): while the Remote call of a create, update,
\* delete or toggle pin is in flight, the LocalStore write of that mutation
\* has been made already.
C11_LocalWriteFirst ==
    (aux.ui.pc = "remote" /\ aux.ui.kind \in {"create", "update", "delete", "pin"})
        => UiApplied(aux.ui)

\* C12 (fallback on Remote failure): when the Remote call of a create,
\* update, delete or toggle pin fails while the client is online, the
\* mutation is in LocalStore afterwards and a PendingOp for it has been
\* queued.
C12_FallbackOnRemoteFailure ==
    [][(/\ UiRemoteFail
        /\ online
        /\ aux.ui.kind \in {"create", "update", "delete", "pin"})
        => /\ IF aux.ui.kind = "delete" THEN notes'[aux.ui.n] = NoNote
              ELSE notes'[aux.ui.n] = aux.ui.note
           /\ Len(pending') = Len(pending) + 1
           /\ LET op == pending'[Len(pending')]
              IN  /\ op.noteId = aux.ui.n
                  /\ op.kind = IF aux.ui.kind = "delete" THEN "delete" ELSE "upsert"
                  /\ op.note = IF aux.ui.kind = "delete" THEN NoNote ELSE aux.ui.note]_vars

\* C13 (offline routing): a mutation handler that starts while offline makes
\* no Remote call, leaves Remote as it is and queues one PendingOp.
C13_OfflineRouting ==
    [][(UiStart /\ ~online)
        => /\ aux'.ui.pc # "remote"
           /\ remote' = remote
           /\ Len(pending') = Len(pending) + 1]_vars

\* C14 (dirty flag invariant): whenever no syncPending run is in progress,
\* the dirty flag is set exactly when the queue holds a PendingOp.
C14_DirtyFlag ==
    task["rec"].pc \notin {"drainRead", "drain", "drainEnd"}
        => (dirty = 1 <=> pending # <<>>)

\* C15 (remote deletion detection): after the merge of a Full fetch, every
\* note of the owner that was in LocalStore and is absent from the remote
\* set is gone from LocalStore, for every remote set, the empty one included.
C15_RemoteDeletionDetected ==
    (aux.stage = 0 /\ task["bg"].pc = "setFull") =>
        \A i \in StoredIds(aux.start, Me) \ {r.id : r \in aux.rows} :
            notes[i] = NoNote

\* C16 (realtime delete handling): when the fetch run by the handler of a
\* remote Deleted event ends after a successful read, no note that Remote
\* no longer has is left in LocalStore, whatever lastFullSync and
\* lastFetchedAt were when the event arrived.
C16_RealtimeDelete ==
    [][(FetchSetFetched("bg") \/ (FetchReadOk("bg") /\ task'["bg"] = Idle))
        => \A n \in NoteIds : remote[n] = NoNote => notes'[n] = NoNote]_vars

\* C17 (merge only after own writes are flushed): the store write of a fetch
\* never replaces the LocalStore record of a note for which an Upsert of
\* the owner is still queued by a remote row for that note.
C17_MergeAfterFlush ==
    [][\A t \in {"rec", "bg"} : FetchMerge(t) =>
          \A n \in PendingUpserts(pending, Me) \cap {r.id : r \in task[t].rows} :
              notes[n] # NoNote => notes'[n] = notes[n]]_vars

\* C18 (retry after failure): a tick of the periodic timer that finds
\* PendingOps of the owner queued while the client is online and no drain
\* is running starts a drain of the queue.
C18_TimerRetriesDrain ==
    [][(Poll("bg") /\ getPendingCount(pending, Me) > 0 /\ task["rec"] = Idle)
        => \E t \in {"rec", "bg"} : task'[t].pc = "drainRead"]_vars

\* C19 (no concurrent reconciliation): at most one drain or fetch of the
\* owner is in progress at any time.
C19_OneReconciliation ==
    task["rec"] = Idle \/ task["bg"] = Idle

\* C20 (interleaved merges converge): with Remote versions that only grow,
\* the store write of a fetch never replaces a LocalStore record by an
\* older version of the note, as it never does when the fetches run one
\* after the other in the order of their remote reads.
C20_MergesConverge ==
    [][\A t \in {"rec", "bg"} : FetchMerge(t) =>
          \A i \in DOMAIN notes :
              (notes[i] # NoNote /\ notes'[i] # NoNote)
                  => notes'[i].updated_at >= notes[i].updated_at]_vars

\* C21 (drain result and exact removal): in every iteration of syncPending
\* the counter it returns grows by the number of queue entries removed; an
\* entry is removed only in the iteration whose Remote call was made for
\* that very entry and succeeded, one entry at a time, so other entries
\* that reference the same note stay queued; nothing else removes entries.
C21_DrainExactRemoval ==
    [][LET t == task["rec"]
           gone == {pending[i] : i \in DOMAIN pending}
                       \ {pending'[i] : i \in DOMAIN pending'}
       IN  /\ t.pc # "drain" => gone = {}
           /\ t.pc = "drain" =>
                /\ Cardinality(gone) = task'["rec"].count - t.count
                /\ \A op \in gone :
                    /\ op = Head(SkipOthers(t.todo, Me))
                    /\ remote' = RemoteApply(remote, op)
                    /\ task'["rec"].calls = Append(t.calls, op.key)]_vars

\* a drain has ended after removing an entry while another entry of the
\* owner for the same note is still queued
C21_Witness ==
    /\ task["rec"].pc = "drainEnd"
    /\ task["rec"].count >= 1
    /\ \E i \in DOMAIN task["rec"].mine :
        /\ task["rec"].mine[i].key \notin OpKeys(pending)
        /\ \E j \in DOMAIN pending :
            /\ pending[j].noteId = task["rec"].mine[i].noteId
            /\ pending[j].user_id = Me

\* C22 (authoritative delete purges the queue): when the Remote delete of
\* an online delete of note N has succeeded and the handler has gone on,
\* whether it was started from the note list or by saving the emptied
\* note, no PendingOp of the owner that references N is left.
C22_DeletePurgesQueue ==
    [][(UiRemoteOk /\ aux.ui.kind \in {"delete", "empty"})
        => \A i \in DOMAIN pending' :
              ~(pending'[i].noteId = aux.ui.n /\ pending'[i].user_id = Me)]_vars

\* C23 (delete supersedes an earlier Upsert on replay): when a drain ends
\* with no failed Remote call, every note of the owner for which the queue
\* read by the drain held an Upsert and, enqueued after it as its last op,
\* a Delete, is absent from Remote, and the Remote calls of the drain were
\* made in enqueue order.
C23_DeleteSupersedesUpsert ==
    LET t == task["rec"] IN
    (t.pc = "drainEnd" /\ ~t.failed) =>
        /\ \A a, b \in DOMAIN t.calls : a < b => t.calls[a] < t.calls[b]
        /\ \A i, j \in DOMAIN t.mine :
              (/\ t.mine[i].kind = "upsert"
               /\ t.mine[j].kind = "delete"
               /\ t.mine[i].noteId = t.mine[j].noteId
               /\ t.mine[i].key < t.mine[j].key
               /\ \A k \in DOMAIN t.mine :
                    t.mine[k].noteId = t.mine[j].noteId => t.mine[k].key <= t.mine[j].key)
              => remote[t.mine[j].noteId] = NoNote

\* C24 (reconnect sequence): a connectivity-restored event starts the drain
\* of the queue; the fetch of the reconnect handler starts only when the
\* drain has ended, and it starts after every drain, whether the drain
\* synced an op or not.
C24_ReconnectSequence ==
    [][/\ (GoOnline /\ task["rec"] = Idle) => task'["rec"].pc = "drainRead"
       /\ (task["rec"].pc # "meta" /\ task'["rec"].pc = "meta")
              => task["rec"].pc = "drainEnd"
       /\ (task["rec"].pc = "drainEnd" /\ task'["rec"] # task["rec"])
              => task'["rec"].pc = "meta"]_vars

\* the fetch of a reconnect has merged although the drain before it removed
\* none of the ops ever queued
C24_Witness ==
    /\ task["rec"].pc = "setFetched"
    /\ pending # <<>>
    /\ Len(pending) = nextKey - 1

\* C25 (fetch cooldown): when the owner has local notes, no op is queued
\* and a fetch has been recorded, a trigger starts fetchRemoteAndMerge only
\* if more than MIN_FETCH_INTERVAL_MS has passed since lastFetchedAt.
C25_FetchCooldown ==
    [][\A t \in {"rec", "bg"} :
          (/\ task[t] = Idle
           /\ task'[t].pc = "meta"
           /\ StoredIds(notes, Me) # {}
           /\ getPendingCount(pending, Me) = 0
           /\ lastFetchedAt # 0)
          => now - lastFetchedAt > MIN_FETCH_INTERVAL_MS]_vars

\* C26 (fetch timestamps): a fetch whose remote read succeeded leaves
\* lastFetchedAt at the current time when it ends, whether it was a Full
\* fetch, a Delta with rows, a Delta with no rows or a fallback Full;
\* a Delta does not go on to set lastFullSync; a failed read changes
\* neither timestamp.
C26_FetchTimestamps ==
    [][\A t \in {"rec", "bg"} :
          /\ (FetchReadOk(t) /\ task'[t] = Idle) => lastFetchedAt' = now
          /\ FetchSetFetched(t) => lastFetchedAt' = now
          /\ (FetchMerge(t) /\ task[t].mode = "delta") => task'[t].pc # "setFull"
          /\ FetchReadFail(t) =>
                (lastFetchedAt' = lastFetchedAt /\ lastFullSync' = lastFullSync)]_vars

\* C27 (Delta never deletes): the store write of a Delta fetch keeps every
\* note that was in LocalStore, and changes a record only into the fetched
\* row of that id.
C27_DeltaNeverDeletes ==
    [][\A t \in {"rec", "bg"} :
          (FetchMerge(t) /\ task[t].mode = "delta") =>
              \A i \in DOMAIN notes :
                  /\ notes[i] # NoNote => notes'[i] # NoNote
                  /\ notes'[i] # notes[i] => notes'[i] \in task[t].rows]_vars

\* a Delta has written its rows while a note of the owner that the rows do
\* not contain is still stored
C27_Witness ==
    /\ aux.stage = 0
    /\ aux.mode = "delta"
    /\ task["bg"].pc = "setFetched"
    /\ \E r \in aux.rows : notes[r.id] = r /\ aux.start[r.id] # r
    /\ \E i \in StoredIds(aux.start, Me) :
          /\ i \notin {r.id : r \in aux.rows}
          /\ notes[i] = aux.start[i]

\* C28 (Delta completeness): whenever no fetch is in progress, every row of
\* the owner on Remote that the next Delta will not select, its updated_at
\* being no later than lastFetchedAt, is in LocalStore already.
C28_DeltaComplete ==
    (task["rec"] = Idle /\ task["bg"] = Idle /\ lastFetchedAt # 0) =>
        \A r \in RemoteRows(remote, Me) :
            r.updated_at <= lastFetchedAt => notes[r.id] = r

\* C29 (drain skips other owners): syncPending(Me) changes neither the
\* queued ops nor the Remote rows of another owner and makes its Remote
\* calls for ops of Me only; and when the queue holds another owner's op
\* ahead of ops of Me, a drain that ends with no failed Remote call has
\* called and removed every op of Me.
C29_DrainSkipsOthers ==
    [][/\ \A o \in Owners \ {Me} :
            /\ OpsOf(pending', o) = OpsOf(pending, o)
            /\ RemoteRows(remote', o) = RemoteRows(remote, o)
       /\ (task["rec"].pc = "drain" /\ task'["rec"].pc = "drainEnd") =>
            LET t == task'["rec"]
                mine == {t.mine[i].key : i \in DOMAIN t.mine}
                called == {t.calls[i] : i \in DOMAIN t.calls}
            IN  /\ called \subseteq mine
                /\ (/\ ~t.failed
                    /\ \E j \in DOMAIN pending : \E k \in mine :
                          pending[j].user_id # Me /\ pending[j].key < k)
                   => (called = mine /\ OpKeys(pending') \cap mine = {})]_vars

\* C30 (clearAllForOwner effect and frame): after clearAllLocal(O) no note
\* and no PendingOp of O is stored, the list of O is empty and its pending
\* count is 0, and the notes and the queued ops of every other owner are
\* the ones stored before, in the same order.
C30_ClearAllLocal ==
    aux.stage > 0 =>
        /\ StoredIds(notes, aux.owner) = {}
        /\ getLocalNotes(notes, aux.owner) = <<>>
        /\ getPendingCount(pending, aux.owner) = 0
        /\ \A i \in DOMAIN notes :
              IF aux.notes[i] # NoNote /\ aux.notes[i].user_id # aux.owner
              THEN notes[i] = aux.notes[i] ELSE notes[i] = NoNote
        /\ \A o \in Owners \ {aux.owner} :
              OpsOf(pending, o) = OpsOf(aux.pending, o)
        /\ \A j \in DOMAIN pending : pending[j].user_id # aux.owner

\* the owner cleared had a note, a queued Upsert and a queued Delete, and
\* another owner's note and queued op are still stored
C30_Witness ==
    /\ aux.stage > 0
    /\ StoredIds(aux.notes, aux.owner) # {}
    /\ \E i, j \in DOMAIN aux.pending :
          /\ aux.pending[i].user_id = aux.owner /\ aux.pending[i].kind = "upsert"
          /\ aux.pending[j].user_id = aux.owner /\ aux.pending[j].kind = "delete"
    /\ \E o \in Owners \ {aux.owner} :
          /\ StoredIds(notes, o) # {}
          /\ getPendingCount(pending, o) > 0

====
